---- MODULE Spec2Model ----
(***************************************************************************)
(* ElementAnimator (src/js/element-animator.js): one instance of the class *)
(* together with the parts of the browser it drives: the DOM elements it   *)
(* styles, the requestAnimationFrame queue and the IntersectionObserver.   *)
(*                                                                         *)
(* Numbers: the time accumulator and the hue are kept as integers in       *)
(* units of 1/Scale (time 1 = 0.01, hue 15 = 0.15 degrees), so the         *)
(* arithmetic of _update is exact; floating-point rounding is not          *)
(* modelled.                                                               *)
(***************************************************************************)
EXTENDS Integers, Sequences, FiniteSets, TLC

\* ------------------------------------------------------------------ bounds
MaxUpdates == 3
\* the longest targets array drawn when target resolution is checked on its own
MaxEntries == 3

\* --------------------------------------------------------------- constants
Scale == 100
DefaultSpeed == 1
DefaultHueTimeFactor == 15
DefaultHueIndexFactor == 10
FullCircle == 360
UidNow == 1
\* Date.now() at a construction at least a millisecond later
UidLater == 2

\* A nullable field: <<>> is null/undefined, <<x>> holds x.
Null == <<>>
Some(x) == <<x>>
IsNull(f) == f = <<>>
Val(f) == f[1]

\* ---------------------------------------------------------- style values
\* One inline declaration value; Unset is the empty string of el.style[p].
Unset == [kind |-> "", hue |-> 0, sat |-> "", light |-> "", names |-> <<>>]
Hsl(h, s, l) == [kind |-> "hsl", hue |-> h, sat |-> s, light |-> l, names |-> <<>>]
Txt(k, ns) == [kind |-> k, hue |-> 0, sat |-> "", light |-> "", names |-> ns]

\* The properties of a CSSStyleDeclaration the model tells apart.
StyleNames == {"color", "backgroundColor", "webkitTextFillColor", "transition",
               "willChange", "transform", "font", "display", "fontWeight"}
\* `prop in document.documentElement.style` on the modelled platform:
\* textFillColor exists only with the webkit prefix.
Supported == StyleNames
NoStyle == [p \in StyleNames |-> Unset]

\* el.style[prop] = value: an unsupported name is an expando of the style
\* object and declares nothing.
SetStyle(css, p, v) == IF p \in Supported THEN [css EXCEPT ![p] = v] ELSE css

\* -------------------------------------------------------------- the DOM
Elements == {1, 2}

TextNode(chars) == [tag |-> "#text", cls |-> <<>>, text |-> chars, css |-> NoStyle]
ElemNode(t, c, chars, css) == [tag |-> t, cls |-> c, text |-> chars, css |-> css]

\* textContent of a node list
RECURSIVE TextContent(_)
TextContent(nodes) ==
    IF nodes = <<>> THEN <<>> ELSE Head(nodes).text \o TextContent(Tail(nodes))

\* HTML escaping of one character of text
Escape(c) == IF c = "&" THEN "&amp;" ELSE c
Unescape(s) == IF s = "&amp;" THEN "&" ELSE s

Tok(k, t, c, css, s) == [k |-> k, tag |-> t, cls |-> c, css |-> css, s |-> s]
CharToks(chars) == [i \in 1..Len(chars) |-> Tok("char", "", <<>>, NoStyle, Escape(chars[i]))]

\* innerHTML getter: the serialisation of a node list, as a token sequence
RECURSIVE Serialize(_)
Serialize(nodes) ==
    IF nodes = <<>> THEN <<>>
    ELSE LET n == Head(nodes) IN
         (IF n.tag = "#text" THEN CharToks(n.text)
          ELSE <<Tok("open", n.tag, n.cls, n.css, "")>> \o CharToks(n.text)
               \o <<Tok("close", n.tag, <<>>, NoStyle, "")>>)
         \o Serialize(Tail(nodes))

\* length of the run of "char" tokens at the head of toks
RECURSIVE CharRun(_)
CharRun(toks) ==
    IF toks = <<>> \/ Head(toks).k # "char" THEN 0 ELSE 1 + CharRun(Tail(toks))

Chars(toks) == [i \in 1..Len(toks) |-> Unescape(toks[i].s)]

\* innerHTML setter: the HTML parser on a token sequence
RECURSIVE Parse(_)
Parse(toks) ==
    IF toks = <<>> THEN <<>>
    ELSE LET h == Head(toks) IN
         IF h.k = "open"
         THEN LET n == CharRun(Tail(toks))
              IN <<ElemNode(h.tag, h.cls, Chars(SubSeq(toks, 2, n + 1)), h.css)>>
                 \o Parse(SubSeq(toks, n + 3, Len(toks)))
         ELSE LET n == CharRun(toks)
              IN <<TextNode(Chars(SubSeq(toks, 1, n)))>>
                 \o Parse(SubSeq(toks, n + 1, Len(toks)))

\* One element: its child nodes, its data-org-content attribute (Null when
\* absent), its inline style and whether it is in the document.
Element(content, css, att) ==
    [content |-> content, orgContent |-> Null, css |-> css, attached |-> att]

\* ------------------------------------------------------ target resolution
\* options.targets as the caller passes it: kind says which branch of
\* _resolveTargets it takes; an array holds entries, each an element, a
\* NodeList or something else.
Entry(k, els) == [kind |-> k, els |-> els]
Targets(k, items) == [kind |-> k, items |-> items]

RECURSIVE SeqOfSet(_)
\* the members of a set of numbers, ascending
SeqOfSet(S) ==
    IF S = {} THEN <<>>
    ELSE LET m == CHOOSE x \in S : \A y \in S : x <= y
         IN <<m>> \o SeqOfSet(S \ {m})

\* The elements in document order: element 1 precedes element 2.
DocOrder == SeqOfSet(Elements)

RECURSIVE SelectSeq2(_, _)
\* the attached elements of a sequence, in its order
SelectSeq2(s, d) ==
    IF s = <<>> THEN <<>>
    ELSE (IF d[Head(s)].attached THEN <<Head(s)>> ELSE <<>>) \o SelectSeq2(Tail(s), d)

\* document.querySelectorAll(selector): the one selector modelled matches
\* every element of the document.
QuerySelectorAll(d) == SelectSeq2(DocOrder, d)

RECURSIVE FlatMap(_)
FlatMap(items) ==
    IF items = <<>> THEN <<>>
    ELSE (IF Head(items).kind \in {"element", "nodelist"} THEN Head(items).els ELSE <<>>)
         \o FlatMap(Tail(items))

\* the elements as collected, duplicates kept
Dedup_None(s) == s

RECURSIVE Dedup(_)
\* [...new Set(elements)]: first occurrences, in insertion order
Dedup(s) ==
    IF s = <<>> THEN <<>>
    ELSE LET init == Dedup(SubSeq(s, 1, Len(s) - 1))
             x == s[Len(s)]
         IN IF \E i \in 1..Len(init) : init[i] = x THEN init ELSE Append(init, x)

resolveTargets(targets, d) ==
    Dedup(CASE targets.kind = "selector" -> QuerySelectorAll(d)
            [] targets.kind = "element" -> targets.items[1].els
            [] targets.kind = "nodelist" -> targets.items[1].els
            [] targets.kind = "array" -> FlatMap(targets.items)
            [] OTHER -> <<>>)

\* --------------------------------------------------- property normalisation
Capitalize(prop) ==
    CASE prop = "color" -> "Color"
      [] prop = "backgroundColor" -> "BackgroundColor"
      [] prop = "textFillColor" -> "TextFillColor"
      [] OTHER -> prop

\* prefix + capProp, for the names the platform may know
Concat(prefix, capProp) ==
    IF prefix = "webkit" /\ capProp = "TextFillColor" THEN "webkitTextFillColor"
    ELSE "unknownPrefixed"

Prefixes == <<"webkit", "moz", "ms", "o">>

getCssProp(prop) ==
    IF prop \in Supported THEN prop
    ELSE LET hits == {i \in 1..Len(Prefixes) : Concat(Prefixes[i], Capitalize(prop)) \in Supported}
         IN IF hits = {} THEN prop
            ELSE Concat(Prefixes[CHOOSE i \in hits : \A j \in hits : i <= j], Capitalize(prop))

\* ------------------------------------------------------------ the instance
\* The fields of an ElementAnimator. A field the constructor has not set, or
\* destroy() has set to null, is Null.
NoInstance ==
    [stage |-> "new", options |-> Null, properties |-> <<>>, targets |-> Null,
     time |-> 0, animationId |-> Null, animatedElements |-> Null,
     isVisible |-> FALSE, uid |-> 0, observer |-> Null, normalizedProps |-> Null]

\* A reference to an animated unit: pos = 0 is element el itself, pos = k > 0
\* is the k-th child node of element el.
Unit(e, k) == [el |-> e, pos |-> k]

\* the defaults of the constructor merged with the caller's options
MergeOptions(o) ==
    [property |-> o.property, speed |-> o.speed,
     hueTimeFactor |-> DefaultHueTimeFactor, hueIndexFactor |-> DefaultHueIndexFactor,
     saturation |-> "100%", lightness |-> "50%",
     splitChars |-> IF IsNull(o.splitChars)
                    THEN \E i \in 1..Len(o.property) : o.property[i] = "color"
                    ELSE Val(o.splitChars),
     targets |-> o.targets]

Transition(properties) == Txt("1s linear", properties)
WillChange(properties) == Txt("list", properties \o <<"transform">>)

\* style.cssText = ...: the whole inline style is replaced by the declarations
UnitCss(properties) ==
    [NoStyle EXCEPT !["willChange"] = WillChange(properties),
                    !["transition"] = Transition(properties),
                    !["transform"] = Txt("translateZ(0)", <<>>)]
SpanCss(properties) ==
    [UnitCss(properties) EXCEPT !["font"] = Txt("inherit", <<>>),
                                !["display"] = Txt("inline-block", <<>>)]

CharClass(uid) == <<"anim-char-", uid>>

HasClass(nodes, cls) == \E k \in 1..Len(nodes) : nodes[k].cls = cls

\* the forEach body of the split branch of _initElements, for one target
SplitTarget(d, e, uid, properties) ==
    IF HasClass(d[e].content, CharClass(uid)) THEN d
    ELSE LET text == TextContent(d[e].content)
         IN [d EXCEPT ![e].orgContent = Some(Serialize(d[e].content)),
                      ![e].content = [i \in 1..Len(text) |->
                          ElemNode("span", CharClass(uid), <<text[i]>>, SpanCss(properties))]]

RECURSIVE SplitTargets(_, _, _, _)
SplitTargets(d, ts, uid, properties) ==
    IF ts = <<>> THEN d
    ELSE SplitTargets(SplitTarget(d, Head(ts), uid, properties), Tail(ts), uid, properties)

RECURSIVE ClassUnits(_, _, _)
\* document.querySelectorAll('.' + charClass): the matching child nodes of
\* the attached elements es, in document order
ClassUnits(d, es, cls) ==
    IF es = <<>> THEN <<>>
    ELSE LET e == Head(es)
             ks == {k \in 1..Len(d[e].content) : d[e].content[k].cls = cls}
             ord == SeqOfSet(ks)
         IN [i \in 1..Len(ord) |-> Unit(e, ord[i])] \o ClassUnits(d, Tail(es), cls)

\* _initElements: the new animatedElements and the new DOM
initElements(inst, d) ==
    LET o == Val(inst.options)
        ts == Val(inst.targets)
    IN IF o.splitChars
       THEN LET d1 == SplitTargets(d, ts, inst.uid, inst.properties)
            IN [units |-> ClassUnits(d1, QuerySelectorAll(d1), CharClass(inst.uid)),
                dom |-> d1]
       ELSE [units |-> [i \in 1..Len(ts) |-> Unit(ts[i], 0)],
             dom |-> [e \in Elements |->
                        IF \E i \in 1..Len(ts) : ts[i] = e
                        THEN [d[e] EXCEPT !.css = UnitCss(inst.properties)]
                        ELSE d[e]]]

\* The IntersectionObserver of the platform: whether it is connected, how many
\* units it observes, the intersecting status of each observed unit and
\* whether the initial notification has been delivered.
NoObserver == [connected |-> FALSE, n |-> 0, intersecting |-> <<>>, delivered |-> FALSE]

\* _initObserver
initObserver(hasIO, units) ==
    IF ~hasIO THEN [handle |-> Null, io |-> NoObserver]
    ELSE [handle |-> Some(1),
          io |-> [connected |-> TRUE, n |-> Len(units),
                  intersecting |-> [i \in 1..Len(units) |-> FALSE],
                  delivered |-> FALSE]]

\* The world an operation of the instance reads and writes: the instance, the
\* DOM, the frame queue of requestAnimationFrame, the observer, the side
\* channel (console warning, exception thrown) and the count of updates run.
World(i, d, r, o, x, n) ==
    [inst |-> i, dom |-> d, raf |-> r, io |-> o, out |-> x, updates |-> n]

\* the fields the constructor has set when it has resolved the targets ts
Resolved(o, ts) ==
    [NoInstance EXCEPT !.options = Some(MergeOptions(o)), !.properties = o.property,
                       !.targets = Some(ts)]

\* the constructor from `this.time = 0` on, Date.now() being now
constructRest(w, o, ts, hasIO, now) ==
    LET i1 == [Resolved(o, ts) EXCEPT
                   !.stage = "live", !.time = 0, !.animationId = Null,
                   !.animatedElements = Some(<<>>), !.isVisible = TRUE,
                   !.uid = now, !.observer = Null,
                   !.normalizedProps =
                       Some([k \in 1..Len(o.property) |-> getCssProp(o.property[k])])]
        ie == initElements(i1, w.dom)
        ob == initObserver(hasIO, ie.units)
    IN [w EXCEPT !.inst = [i1 EXCEPT !.animatedElements = Some(ie.units),
                                     !.observer = ob.handle],
                 !.dom = ie.dom, !.io = ob.io]

\* new ElementAnimator(options), Date.now() being now
constructAt(w, o, hasIO, now) ==
    LET ts == resolveTargets(MergeOptions(o).targets, w.dom)
    IN IF Len(ts) = 0
       THEN [w EXCEPT !.inst = [Resolved(o, ts) EXCEPT !.stage = "inert"],
                      !.out.warned = TRUE]
       ELSE constructRest(w, o, ts, hasIO, now)

\* a constructor that warns and goes on instead of returning
construct_NoAbort(w, o, hasIO) ==
    LET ts == resolveTargets(MergeOptions(o).targets, w.dom)
    IN constructRest([w EXCEPT !.out.warned = (Len(ts) = 0)], o, ts, hasIO, UidNow)

\* new ElementAnimator(options) of the instance under study
construct(w, o, hasIO) == constructAt(w, o, hasIO, UidNow)

\* --------------------------------------------------------- the frame loop
\* a % m of JavaScript: the remainder takes the sign of the dividend
JsRem(a, m) == IF a >= 0 THEN a % m ELSE -((-a) % m)

\* hue of unit i (0-based) at time t, in units of 1/Scale degree
Hue(t, i, o) ==
    JsRem(t * o.hueTimeFactor + i * o.hueIndexFactor * Scale, FullCircle * Scale)

RECURSIVE PaintCss(_, _, _)
\* this._normalizedProps.forEach(prop => el.style[prop] = color)
PaintCss(css, props, c) ==
    IF props = <<>> THEN css ELSE PaintCss(SetStyle(css, Head(props), c), Tail(props), c)

\* the style writes of _update on one unit
PaintUnit(d, u, props, c) ==
    IF u.pos = 0 THEN [d EXCEPT ![u.el].css = PaintCss(@, props, c)]
    ELSE IF u.pos <= Len(d[u.el].content)
         THEN [d EXCEPT ![u.el].content[u.pos].css = PaintCss(@, props, c)]
         ELSE d

RECURSIVE PaintUnits(_, _, _, _, _, _)
\* this.animatedElements.forEach((el, i) => ...), from the i-th unit on
PaintUnits(d, units, i, t, o, props) ==
    IF i > Len(units) THEN d
    ELSE PaintUnits(PaintUnit(d, units[i], props,
                              Hsl(Hue(t, i - 1, o), o.saturation, o.lightness)),
                    units, i + 1, t, o, props)

\* an operation ends by throwing a TypeError
Throw(w) == [w EXCEPT !.out.threw = TRUE]

\* requestAnimationFrame(cb): a fresh id joins the pending requests
RequestFrame(raf) == [pending |-> raf.pending \cup {raf.nextId}, nextId |-> raf.nextId + 1]
\* cancelAnimationFrame(id)
CancelFrame(raf, id) == [raf EXCEPT !.pending = @ \ {id}]

\* whether _update asks for the next frame
Reschedules(inst) == inst.isVisible

\* _update with the colours built from the time before it is advanced
update_PaintsBeforeAdvance(w) ==
    IF IsNull(w.inst.options) \/ IsNull(w.inst.animatedElements) THEN Throw(w)
    ELSE LET o == Val(w.inst.options)
             t == w.inst.time + o.speed
             d == PaintUnits(w.dom, Val(w.inst.animatedElements), 1, w.inst.time, o,
                             Val(w.inst.normalizedProps))
         IN IF Reschedules(w.inst)
            THEN [w EXCEPT !.inst.time = t, !.dom = d, !.updates = @ + 1,
                           !.inst.animationId = Some(w.raf.nextId),
                           !.raf = RequestFrame(w.raf)]
            ELSE [w EXCEPT !.inst.time = t, !.dom = d, !.updates = @ + 1,
                           !.inst.animationId = Null]

\* _update
update(w) ==
    IF IsNull(w.inst.options) \/ IsNull(w.inst.animatedElements) THEN Throw(w)
    ELSE LET o == Val(w.inst.options)
             t == w.inst.time + o.speed
             d == PaintUnits(w.dom, Val(w.inst.animatedElements), 1, t, o,
                             Val(w.inst.normalizedProps))
         IN IF Reschedules(w.inst)
            THEN [w EXCEPT !.inst.time = t, !.dom = d, !.updates = @ + 1,
                           !.inst.animationId = Some(w.raf.nextId),
                           !.raf = RequestFrame(w.raf)]
            ELSE [w EXCEPT !.inst.time = t, !.dom = d, !.updates = @ + 1,
                           !.inst.animationId = Null]

\* start() without the test for a pending frame
startGuard_NoIdleTest(inst) ==
    /\ Len(Val(inst.animatedElements)) # 0
    /\ inst.isVisible

\* the condition of start(): idle, units exist, visible
startGuard(inst) ==
    /\ IsNull(inst.animationId)
    /\ Len(Val(inst.animatedElements)) # 0
    /\ inst.isVisible

\* start(); reading .length of a missing animatedElements throws
start(w) ==
    IF IsNull(w.inst.animationId) /\ IsNull(w.inst.animatedElements) THEN Throw(w)
    ELSE IF startGuard(w.inst) THEN update(w) ELSE w

\* stop() without cancelAnimationFrame
stopCancel_NoCancel(raf, id) == raf

\* the frame queue after stop() has cancelled request id
stopCancel(raf, id) == CancelFrame(raf, id)

\* stop() that cancels the frame and keeps animationId
stop_KeepsId(w) ==
    IF ~IsNull(w.inst.animationId)
    THEN [w EXCEPT !.raf = stopCancel(w.raf, Val(w.inst.animationId))]
    ELSE w

\* stop()
stop(w) ==
    IF ~IsNull(w.inst.animationId)
    THEN [w EXCEPT !.raf = stopCancel(w.raf, Val(w.inst.animationId)),
                   !.inst.animationId = Null]
    ELSE w

\* ----------------------------------------------------------------- destroy
\* destroy(), split branch, for one target: a truthy data-org-content is put
\* back as the content and the attribute is deleted
RestoreTarget(d, e) ==
    IF ~IsNull(d[e].orgContent) /\ Val(d[e].orgContent) # <<>>
    THEN [d EXCEPT ![e].content = Parse(Val(d[e].orgContent)), ![e].orgContent = Null]
    ELSE d

RECURSIVE RestoreTargets(_, _)
RestoreTargets(d, ts) ==
    IF ts = <<>> THEN d ELSE RestoreTargets(RestoreTarget(d, Head(ts)), Tail(ts))

\* destroy() that leaves the transform in place
ClearedNames_NoTransform == <<"transition", "willChange">>

\* the style properties destroy() clears on a unit besides the animated ones
ClearedNames == <<"transition", "willChange", "transform">>

\* the animated properties destroy() clears
destroyProps(inst) == Val(inst.normalizedProps)

\* destroy(), non-split branch, for one unit
ClearUnit(d, u, props) ==
    [d EXCEPT ![u.el].css = PaintCss(PaintCss(@, props, Unset), ClearedNames, Unset)]

RECURSIVE ClearUnits(_, _, _)
ClearUnits(d, units, props) ==
    IF units = <<>> THEN d ELSE ClearUnits(ClearUnit(d, Head(units), props), Tail(units), props)

\* destroy() without its call of stop()
destroyStop_Skipped(w) == w

\* the first statement of destroy()
destroyStop(w) == stop(w)

\* destroy(): the observer part
destroyObserver(w) ==
    IF ~IsNull(w.inst.observer)
    THEN [w EXCEPT !.io.connected = FALSE, !.io.n = 0, !.io.intersecting = <<>>,
                   !.inst.observer = Null]
    ELSE w

\* destroy()
destroy(w) ==
    LET w1 == destroyObserver(destroyStop(w))
    IN IF IsNull(w1.inst.options) THEN Throw(w1)
       ELSE IF ~Val(w1.inst.options).splitChars /\ IsNull(w1.inst.animatedElements)
       THEN Throw(w1)
       ELSE LET d == IF Val(w1.inst.options).splitChars
                     THEN RestoreTargets(w1.dom, Val(w1.inst.targets))
                     ELSE ClearUnits(w1.dom, Val(w1.inst.animatedElements),
                                     destroyProps(w1.inst))
            IN [w1 EXCEPT !.dom = d, !.inst.stage = "destroyed",
                          !.inst.animatedElements = Null, !.inst.targets = Null,
                          !.inst.options = Null, !.inst.normalizedProps = Null]

\* ------------------------------------------------------ visibility gating
\* entries.every(...) in place of entries.some(...)
SomeIntersecting_Every(S, now) == \A u \in S : now[u]

\* entries.some(e => e.isIntersecting), the entries being the units S with
\* the statuses now
SomeIntersecting(S, now) == \E u \in S : now[u]

\* a callback that starts on becoming visible and never stops
observerCallback_NoStop(w, S, now) ==
    LET wasVisible == w.inst.isVisible
        vis == SomeIntersecting(S, now)
        w1 == [w EXCEPT !.inst.isVisible = vis]
    IN IF wasVisible # vis /\ vis THEN start(w1) ELSE w1

\* the callback given to the IntersectionObserver
observerCallback(w, S, now) ==
    LET wasVisible == w.inst.isVisible
        vis == SomeIntersecting(S, now)
        w1 == [w EXCEPT !.inst.isVisible = vis]
    IN IF wasVisible # vis
       THEN (IF vis THEN start(w1) ELSE stop(w1))
       ELSE w1

\* ------------------------------------------------------------- the state
VARIABLES
    cfg,      \* what the caller and the page supply: options, platform, DOM before construction
    inst,     \* the fields of the ElementAnimator instance
    dom,      \* the elements of the page
    raf,      \* requestAnimationFrame: pending request ids and the next id
    io,       \* the IntersectionObserver of the platform
    out,      \* side channel: console.warn called, TypeError thrown
    updates,  \* how many times _update has run
    last,     \* the operation that ran last, and whether a frame was pending
              \* and the visibility flag set when it began
    started,  \* whether the caller has called start()
    second    \* a second instance built from the same options: its fields and its observer

vars == <<cfg, inst, dom, raf, io, out, updates, last, started, second>>

Now == World(inst, dom, raf, io, out, updates)

\* the step takes the world to w; a step that would run more than MaxUpdates
\* updates is cut off
Becomes(w) ==
    /\ w.updates <= MaxUpdates
    /\ inst' = w.inst
    /\ dom' = w.dom
    /\ raf' = w.raf
    /\ io' = w.io
    /\ out' = w.out
    /\ updates' = w.updates

\* the second instance before its construction
NoSecond == [inst |-> NoInstance, io |-> NoObserver]

\* ------------------------------------------------------------ the inputs
PropertyChoices ==
    { [property |-> <<"backgroundColor">>, splitChars |-> Null],
      [property |-> <<"color", "textFillColor">>, splitChars |-> Null],
      [property |-> <<"color", "textFillColor">>, splitChars |-> Some(FALSE)] }

SpeedChoices == {DefaultSpeed, -DefaultSpeed, 12 * Scale}

TargetChoices ==
    { Targets("selector", <<>>),
      Targets("element", <<Entry("element", <<1>>)>>),
      Targets("array", <<Entry("nodelist", <<2, 1>>), Entry("element", <<2>>),
                         Entry("other", <<>>)>>),
      Targets("array", <<Entry("other", <<>>)>>) }

Bold == [NoStyle EXCEPT !["fontWeight"] = Txt("bold", <<>>)]

\* element 1: empty, or the text "a" followed by <b>&amp;</b>, with an inline
\* font-weight; element 2: the text "b", in the document or not
DomChoices ==
    { [e \in Elements |->
          IF e = 1 THEN Element(c, Bold, TRUE)
          ELSE Element(<<TextNode(<<"b">>)>>, NoStyle, att)] :
      c \in {<<>>, <<TextNode(<<"a">>), ElemNode("b", <<>>, <<"&">>, NoStyle)>>},
      att \in BOOLEAN }

Init ==
    /\ cfg \in { [options |-> [property |-> pc.property, splitChars |-> pc.splitChars,
                               speed |-> sp, targets |-> tg],
                  hasIO |-> h, dom0 |-> d] :
                 pc \in PropertyChoices, sp \in SpeedChoices, tg \in TargetChoices,
                 h \in BOOLEAN, d \in DomChoices }
    /\ inst = NoInstance
    /\ dom = cfg.dom0
    /\ raf = [pending |-> {}, nextId |-> 1]
    /\ io = NoObserver
    /\ out = [warned |-> FALSE, threw |-> FALSE]
    /\ updates = 0
    /\ last = [op |-> "init", running |-> FALSE, visible |-> FALSE]
    /\ started = FALSE
    /\ second = NoSecond

\* ------------------------------------------------------------ the actions
\* the record of operation op, begun in the state now
Ran(op) == [op |-> op, running |-> ~IsNull(inst.animationId), visible |-> inst.isVisible]

Constructed == inst.stage \in {"live", "inert"}

Construct ==
    /\ inst.stage = "new"
    /\ Becomes(construct(Now, cfg.options, cfg.hasIO))
    /\ last' = Ran("construct")
    /\ UNCHANGED <<cfg, started, second>>

Start ==
    /\ Constructed
    /\ Becomes(start(Now))
    /\ last' = Ran("start")
    /\ started' = TRUE
    /\ UNCHANGED <<cfg, second>>

Stop ==
    /\ Constructed
    /\ Becomes(stop(Now))
    /\ last' = Ran("stop")
    /\ UNCHANGED <<cfg, started, second>>

Destroy ==
    /\ Constructed
    /\ Becomes(destroy(Now))
    /\ last' = Ran("destroy")
    /\ UNCHANGED <<cfg, started, second>>

\* the platform runs a pending frame request: the request leaves the queue
\* and its callback, () => this._update(), runs
FrameCallback ==
    /\ \E id \in raf.pending :
          Becomes(update([Now EXCEPT !.raf.pending = @ \ {id}]))
    /\ last' = Ran("frame")
    /\ UNCHANGED <<cfg, started, second>>

\* a unit can intersect the viewport only while its element is in the document
CanIntersect(u) == dom[Val(inst.animatedElements)[u].el].attached

\* the statuses the platform can report next: the first notification reports
\* every observed unit, a later one the units whose status has changed
Batches ==
    IF ~io.delivered
    THEN { [S |-> 1..io.n, now |-> f] :
           f \in {g \in [1..io.n -> BOOLEAN] : \A u \in 1..io.n : g[u] => CanIntersect(u)} }
    ELSE { [S |-> S, now |-> [u \in 1..io.n |-> IF u \in S THEN ~io.intersecting[u]
                                                  ELSE io.intersecting[u]]] :
           S \in (SUBSET {u \in 1..io.n : CanIntersect(u)}) \ {{}} }

\* the platform delivers a batch of intersection entries to the callback
ObserverCallback ==
    /\ io.connected
    /\ io.n > 0
    /\ \E b \in Batches :
          Becomes(observerCallback(
              [Now EXCEPT !.io.intersecting = b.now, !.io.delivered = TRUE], b.S, b.now))
    /\ last' = Ran("observer")
    /\ UNCHANGED <<cfg, started, second>>

Next ==
    \/ Construct
    \/ Start
    \/ Stop
    \/ Destroy
    \/ FrameCallback
    \/ ObserverCallback

Spec == Init /\ [][Next]_vars

\* ------------------------------------------------------------ the claims
Live == inst.stage = "live"
Running == ~IsNull(inst.animationId)
Idle == IsNull(inst.animationId)
Speed == Val(inst.options).speed
Units == Val(inst.animatedElements)

\* C1: start() runs exactly one update and leaves one frame pending if and
\* only if the instance is idle, has at least one unit and is visible; in
\* every other case (already running among them) it changes neither the time
\* accumulator, nor the pending frame, nor any style.
C1_StartContract ==
    [][last'.op = "start" =>
         IF Live /\ Idle /\ Len(Units) > 0 /\ inst.isVisible
         THEN /\ updates' = updates + 1
              /\ inst'.time = inst.time + Speed
              /\ ~IsNull(inst'.animationId)
              /\ raf'.pending = {Val(inst'.animationId)}
              /\ Val(inst'.animationId) \notin raf.pending
         ELSE UNCHANGED <<inst, dom, raf, updates>>]_vars

\* start() has just run its update from an idle, visible state
C1_Witness ==
    /\ last = [op |-> "start", running |-> FALSE, visible |-> TRUE]
    /\ Live /\ Running /\ updates = 1

\* C2: stop() on a running instance takes the pending request out of the
\* frame queue, so that its update cannot run, and leaves the instance idle;
\* stop() on an idle instance changes nothing; stop() after stop() changes
\* nothing.
C2_StopContract ==
    [][last'.op = "stop" =>
         /\ IsNull(inst'.animationId)
         /\ raf'.pending = {}
         /\ inst' = [inst EXCEPT !.animationId = Null]
         /\ UNCHANGED <<dom, io, out, updates>>
         /\ (Idle => UNCHANGED raf)
         /\ stop(World(inst', dom', raf', io', out', updates'))
              = World(inst', dom', raf', io', out', updates')]_vars

\* stop() has just cancelled the frame of a running instance
C2_Witness ==
    /\ last = [op |-> "stop", running |-> TRUE, visible |-> TRUE]
    /\ Live /\ Idle /\ updates >= 1

\* C3: from an idle state, start() followed at once by stop() runs at most
\* one update (time advances by at most one speed) and ends idle with no
\* frame pending.
C3_StartThenStop ==
    (Live /\ Idle) =>
        LET w == stop(start(Now))
        IN /\ w.updates - updates \in {0, 1}
           /\ w.inst.time = inst.time + (w.updates - updates) * Speed
           /\ IsNull(w.inst.animationId)
           /\ w.raf.pending = {}

\* start() ran one update and stop() followed before any frame or observer
\* callback
C3_Witness ==
    /\ last = [op |-> "stop", running |-> TRUE, visible |-> TRUE]
    /\ Live /\ Idle /\ updates = 1 /\ inst.time = Speed
    /\ raf.nextId = 2 /\ ~io.delivered

\* the units an observer callback reports in this step, and whether one of
\* them is reported intersecting
Reported ==
    IF ~io.delivered THEN 1..io'.n
    ELSE {u \in 1..io.n : io'.intersecting[u] # io.intersecting[u]}
SomeReported == \E u \in Reported : io'.intersecting[u]

\* C4: after every observer callback the visibility flag is the OR of the
\* intersecting status of all observed units, reported in the batch or not.
C4_VisibleIsOrOfAllUnits ==
    (last.op = "observer" /\ io.connected) =>
        (inst.isVisible <=> \E u \in 1..io.n : io.intersecting[u])

Colours ==
    {dom[e].css[p] : e \in Elements, p \in StyleNames}
    \cup UNION {{dom[e].content[k].css[p] : k \in 1..Len(dom[e].content), p \in StyleNames} :
                e \in Elements}

\* C6: every hue an update computes lies in [0, 360), negative speed and
\* large accumulated time included.
C6_HueInRange ==
    \A c \in Colours : c.kind = "hsl" => (0 <= c.hue /\ c.hue < FullCircle * Scale)

\* what the instance was constructed with
SplitMode == MergeOptions(cfg.options).splitChars
TargetsOf == resolveTargets(cfg.options.targets, cfg.dom0)
TargetSet == {TargetsOf[i] : i \in 1..Len(TargetsOf)}
AnimatedNames == {getCssProp(cfg.options.property[k]) : k \in 1..Len(cfg.options.property)}
Destroyed == inst.stage = "destroyed"

\* C7: in split mode, after destroy() every target has the child nodes and
\* the attributes it had before construction, a target with empty content
\* included.
C7_SplitRoundTrip ==
    (Destroyed /\ SplitMode) => \A e \in TargetSet : dom[e] = cfg.dom0[e]

\* C8: after destroy() in non-split mode no target has an inline value for an
\* animated property, for transition, for will-change or for transform,
\* however many updates ran.
C8_NonSplitCleared ==
    (Destroyed /\ ~SplitMode) =>
        \A e \in TargetSet :
            \A p \in AnimatedNames \cup {"transition", "willChange", "transform"} :
                dom[e].css[p] = Unset

\* a non-split instance is destroyed after two updates painted its targets
C8_Witness ==
    /\ Destroyed /\ ~SplitMode /\ last.op = "destroy" /\ updates >= 2
    /\ TargetSet # {}

\* C9: in non-split mode the inline style of every target after destroy()
\* equals its inline style before construction, declarations present before
\* construction included.
C9_NonSplitStyleRoundTrip ==
    (Destroyed /\ ~SplitMode) => \A e \in TargetSet : dom[e].css = cfg.dom0[e].css

\* C10: destroy() in any state leaves no frame pending and the observer
\* disconnected, and afterwards no step changes the instance, the frame
\* queue, the update count or any style.
C10_DestroyIsFinal ==
    [][inst'.stage = "destroyed" =>
         /\ raf'.pending = {}
         /\ ~io'.connected
         /\ IsNull(inst'.animationId) /\ IsNull(inst'.observer)
         /\ (Destroyed => UNCHANGED <<inst, dom, raf, updates>>)]_vars

\* destroy() has just run on a running, visible instance that had an observer
C10_Witness ==
    /\ last = [op |-> "destroy", running |-> TRUE, visible |-> TRUE]
    /\ Destroyed /\ cfg.hasIO /\ updates >= 1

\* C11: when target resolution yields no element the constructor warns and
\* aborts, and neither it nor any later start(), stop() or destroy() creates
\* an observer, requests a frame, runs an update or changes the DOM.
C11_EmptyTargetsInert ==
    (inst.stage # "new" /\ TargetSet = {}) =>
        /\ out.warned
        /\ dom = cfg.dom0
        /\ raf = [pending |-> {}, nextId |-> 1]
        /\ io = NoObserver /\ IsNull(inst.observer)
        /\ IsNull(inst.animationId)
        /\ updates = 0

\* start() and then destroy() have run on an instance that resolved no target
C11_Witness ==
    /\ TargetSet = {} /\ out.warned /\ started
    /\ last.op = "destroy" /\ inst.stage \in {"inert", "destroyed"}

\* C12: no public operation throws: any sequence of start() and stop()
\* followed by at most one destroy() completes without an exception, on an
\* instance that resolved no target too.
C12_NothingThrows == ~out.threw

RECURSIVE CharCount(_)
\* the characters of the targets ts as they were before construction
CharCount(ts) ==
    IF ts = <<>> THEN 0
    ELSE Len(TextContent(cfg.dom0[Head(ts)].content)) + CharCount(Tail(ts))

\* C13: after construction the number of animated units is the number of
\* deduplicated targets in non-split mode and the sum of the targets'
\* character counts in split mode, targets outside the document included.
C13_UnitCount ==
    Live => Len(Units) = IF SplitMode THEN CharCount(TargetsOf) ELSE Len(TargetsOf)

RECURSIVE TargetChars(_)
\* the concatenation of the targets' texts, in target order
TargetChars(ts) ==
    IF ts = <<>> THEN <<>>
    ELSE TextContent(cfg.dom0[Head(ts)].content) \o TargetChars(Tail(ts))

\* the character wrapped by the split-mode unit u
UnitChar(u) == dom[u.el].content[u.pos].text[1]

\* C16: in split mode, with every target in the document, the unit at index
\* i wraps the i-th character of the targets' texts concatenated in target
\* order, also when target order is not document order.
C16_UnitsInTargetOrder ==
    (Live /\ SplitMode /\ \A e \in TargetSet : cfg.dom0[e].attached) =>
        /\ Len(Units) = Len(TargetChars(TargetsOf))
        /\ \A i \in 1..Len(Units) : UnitChar(Units[i]) = TargetChars(TargetsOf)[i]

\* C18: on an instance whose start() was never called no observer callback
\* runs an update or leaves a frame requested.
C18_NoLoopBeforeStart ==
    ~started => (updates = 0 /\ raf.pending = {} /\ raf.nextId = 1)

\* C19: between construction and destroy(), a pending frame implies that the
\* visibility flag is true.
C19_RunningImpliesVisible ==
    (Live /\ Running) => inst.isVisible

\* an observer callback has just hidden an instance that was running
C19_Witness ==
    /\ last = [op |-> "observer", running |-> TRUE, visible |-> TRUE]
    /\ Live /\ ~inst.isVisible /\ Idle /\ updates >= 1

\* C20: at most one frame request is outstanding, and it is the one
\* animationId names: no request is orphaned, no two loops run side by side.
C20_OneFrameOutstanding ==
    /\ Cardinality(raf.pending) <= 1
    /\ raf.pending = (IF Running THEN {Val(inst.animationId)} ELSE {})
    /\ \A id \in raf.pending : id < raf.nextId

\* a frame callback has just replaced the request it consumed by a new one
C20_Witness ==
    /\ last = [op |-> "frame", running |-> TRUE, visible |-> TRUE]
    /\ Live /\ Running /\ updates >= 2 /\ raf.pending = {Val(inst.animationId)}

\* ------------------------------------------- target resolution on its own
\* what an entry of a targets array can be: an element, a NodeList (in either
\* order, or empty), or a value of another type
EntryChoices ==
    { Entry("element", <<1>>), Entry("element", <<2>>),
      Entry("nodelist", <<1, 2>>), Entry("nodelist", <<2, 1>>),
      Entry("nodelist", <<>>), Entry("other", <<>>) }

ResolveChoices ==
    { Targets("selector", <<>>),
      Targets("element", <<Entry("element", <<1>>)>>),
      Targets("element", <<Entry("element", <<2>>)>>),
      Targets("nodelist", <<Entry("nodelist", <<2, 1>>)>>),
      Targets("nodelist", <<Entry("nodelist", <<>>)>>),
      Targets("other", <<>>) }
    \cup { Targets("array", items) :
           items \in UNION { [1..n -> EntryChoices] : n \in 0..MaxEntries } }

InitResolve ==
    /\ cfg \in { [options |-> [property |-> pc.property, splitChars |-> pc.splitChars,
                               speed |-> DefaultSpeed, targets |-> tg],
                  hasIO |-> TRUE, dom0 |-> d] :
                 pc \in PropertyChoices, tg \in ResolveChoices, d \in DomChoices }
    /\ inst = NoInstance
    /\ dom = cfg.dom0
    /\ raf = [pending |-> {}, nextId |-> 1]
    /\ io = NoObserver
    /\ out = [warned |-> FALSE, threw |-> FALSE]
    /\ updates = 0
    /\ last = [op |-> "init", running |-> FALSE, visible |-> FALSE]
    /\ started = FALSE
    /\ second = NoSecond

NextResolve == Construct

SpecResolve == InitResolve /\ [][NextResolve]_vars

\* the places of the input that hold an element: <<k, j>> is the j-th element
\* of the k-th entry, entries that are neither element nor NodeList hold none
Places ==
    LET items == cfg.options.targets.items
    IN UNION { { <<k, j>> : j \in 1..Len(items[k].els) } :
               k \in { k \in 1..Len(items) : items[k].kind \in {"element", "nodelist"} } }
At(p) == cfg.options.targets.items[p[1]].els[p[2]]
Before(p, q) == p[1] < q[1] \/ (p[1] = q[1] /\ p[2] < q[2])
\* the first place of the input that holds element e
First(e) ==
    CHOOSE p \in Places : At(p) = e /\ \A q \in Places : At(q) = e => (q = p \/ Before(p, q))

\* C14: the resolved targets hold no element twice; for a selector they are the
\* elements of the document in document order; otherwise they are exactly the
\* elements held by the element and NodeList entries of the input (entries of
\* another type contribute nothing), in the order of their first places.
C14_ResolvedTargets ==
    Constructed =>
       LET r == Val(inst.targets)
       IN /\ \A i, j \in 1..Len(r) : r[i] = r[j] => i = j
          /\ IF cfg.options.targets.kind = "selector"
             THEN /\ { r[i] : i \in 1..Len(r) } = { e \in Elements : cfg.dom0[e].attached }
                  /\ \A i, j \in 1..Len(r) : i < j => r[i] < r[j]
             ELSE /\ { r[i] : i \in 1..Len(r) } = { At(p) : p \in Places }
                  /\ \A i, j \in 1..Len(r) : i < j => Before(First(r[i]), First(r[j]))

\* element 2 is supplied as itself and again through a NodeList, around an
\* entry of another type
C14_Witness ==
    /\ inst.stage = "live"
    /\ cfg.options.targets =
          Targets("array", <<Entry("element", <<2>>), Entry("other", <<>>),
                             Entry("nodelist", <<1, 2>>)>>)
    /\ Val(inst.targets) = <<2, 1>>

\* the inline style of the node a unit refers to
StyleOf(d, u) == IF u.pos = 0 THEN d[u.el].css ELSE d[u.el].content[u.pos].css

\* C15: a step that runs an update advances the time by exactly speed; then
\* every normalized property of every unit i (from 0) holds the hsl colour with
\* the options' saturation and lightness whose hue is
\* (time * hueTimeFactor + i * hueIndexFactor) reduced modulo 360, time being
\* the advanced time (the hue is congruent to that value, and is the value's
\* remainder in [0, 360) when the value is not negative); afterwards a frame is
\* pending iff the visibility flag is true, and none is pending otherwise.
C15_UpdateContract ==
    [][(updates' = updates + 1) =>
         LET o == Val(inst.options)
             t == inst.time + o.speed
             us == Val(inst'.animatedElements)
             M == FullCircle * Scale
         IN /\ inst'.time = t
            /\ \A i \in 1..Len(us) : \A p \in AnimatedNames :
                  LET c == StyleOf(dom', us[i])[p]
                      v == t * o.hueTimeFactor + (i - 1) * o.hueIndexFactor * Scale
                  IN /\ c.kind = "hsl"
                     /\ c.sat = o.saturation
                     /\ c.light = o.lightness
                     /\ (c.hue - v) % M = 0
                     /\ (v >= 0) => (0 <= c.hue /\ c.hue < M)
            /\ (~IsNull(inst'.animationId)) <=> inst'.isVisible
            /\ raf'.pending = (IF inst'.isVisible THEN {Val(inst'.animationId)} ELSE {})
      ]_vars

\* with the default speed, the first update has given unit 0 the hue 0.15 and
\* unit 1 the hue 10.15, and a frame is pending
C15_Witness ==
    /\ Live
    /\ last.op = "start"
    /\ updates = 1
    /\ Speed = DefaultSpeed
    /\ inst.time = DefaultSpeed
    /\ Len(Units) >= 2
    /\ \A p \in AnimatedNames :
          /\ StyleOf(dom, Units[1])[p].hue = DefaultHueTimeFactor
          /\ StyleOf(dom, Units[2])[p].hue = DefaultHueTimeFactor + DefaultHueIndexFactor * Scale
    /\ Running

\* ------------------------------------------- two instances on one target
\* the world as the second instance sees it
NowSecond == World(second.inst, dom, raf, second.io, out, updates)

\* the step of the second instance takes its world to w
BecomesSecond(w) ==
    /\ second' = [inst |-> w.inst, io |-> w.io]
    /\ dom' = w.dom
    /\ raf' = w.raf
    /\ out' = w.out
    /\ updates' = w.updates
    /\ UNCHANGED <<cfg, inst, io, started>>

\* new ElementAnimator(options) again, while the first instance is alive:
\* in the same millisecond as the first construction or later
ConstructSecond ==
    /\ inst.stage = "live"
    /\ second.inst.stage = "new"
    /\ \E now \in {UidNow, UidLater} :
          BecomesSecond(constructAt(NowSecond, cfg.options, cfg.hasIO, now))
    /\ last' = Ran("constructSecond")

DestroySecond ==
    /\ second.inst.stage \in {"live", "inert"}
    /\ BecomesSecond(destroy(NowSecond))
    /\ last' = Ran("destroySecond")

NextTwo ==
    \/ Construct
    \/ ConstructSecond
    \/ Destroy
    \/ DestroySecond

SpecTwo == Init /\ [][NextTwo]_vars

\* the page as the first construction leaves it
AfterFirst ==
    construct(World(NoInstance, cfg.dom0, [pending |-> {}, nextId |-> 1], NoObserver,
                    [warned |-> FALSE, threw |-> FALSE], 0),
              cfg.options, cfg.hasIO).dom

\* C17: in split mode, while both instances are alive every target is as the
\* first construction left it (content not wrapped again, snapshot of the
\* original markup not overwritten), and once both instances are destroyed
\* every target has its child nodes of before the first construction.
C17_SecondSplitIsNoOp ==
    SplitMode =>
       /\ (Live /\ second.inst.stage = "live") =>
             \A e \in TargetSet : dom[e] = AfterFirst[e]
       /\ (Destroyed /\ second.inst.stage = "destroyed") =>
             \A e \in TargetSet : dom[e].content = cfg.dom0[e].content

============================================================================
